---- MODULE Spec2Model ----
(***************************************************************************)
(* The tokenizer (src/src/lexer.rs), the token table (src/src/token.rs),   *)
(* the AST rendering (src/src/ast) and the Pratt parser                     *)
(* (src/src/parser.rs) of the Monkey front end, as a state machine.         *)
(*                                                                         *)
(* A source text is a sequence of characters; a character is a one-char    *)
(* string.  Rust's `str` is UTF-8: `input.len()` and `input[a..b]` count   *)
(* bytes while `input.chars().nth(i)` counts characters, so every          *)
(* character carries its encoded width (utf8_len).                         *)
(***************************************************************************)
EXTENDS Integers, Sequences, FiniteSets, TLC

VARIABLES
    input,        \* Lexer.input: the source text, a sequence of characters
    lexer,        \* Lexer.position, Lexer.read_position, Lexer.ch
    emitted,      \* the tokens Lexer::next_token has returned so far, oldest first
    status,       \* "lexing": a client pulls tokens itself (repl.rs);
                  \* "constructing": Parser::new is about to run;
                  \* "parsing" | "done": parse_program runs / has returned;
                  \* "panicked": the thread has panicked
    cur_token,    \* Parser.cur_token
    peek_token,   \* Parser.peek_token
    errors,       \* Parser.errors
    statements,   \* Program.statements of the program being built
    stack,        \* the parser's call stack, innermost call last
    ret,          \* the value the last returning parser function returned
    earlier       \* what an earlier parse by another Parser gave, kept by the
                  \* caller that compares two parses; none until there is one

vars == <<input, lexer, emitted, status, cur_token, peek_token, errors,
          statements, stack, ret, earlier>>

(***************************************************************************)
(* Bounds of the model.                                                    *)
(***************************************************************************)
\* longest free-form text, in characters
MaxLen == 3
\* most tokens in a text of operands, operators and stray tokens
MaxToks == 4
\* longest text made of single-character punctuation only
MaxPunctLen == 2
\* most words in a text made of keywords and near-keywords
MaxWords == 2
\* most infix operators in a generated expression
MaxOps == 3
\* most statements in a generated statement list
MaxStmts == 2
\* how many tokens may be pulled after the tokenizer has reached the end
MaxPastEnd == 4

(***************************************************************************)
(* Characters and strings.                                                 *)
(***************************************************************************)
\* Option<char>::None
None == "None"

AsciiLetters ==
    {"a", "b", "c", "d", "e", "f", "g", "h", "i", "j", "k", "l", "m", "n", "o",
     "p", "q", "r", "s", "t", "u", "v", "w", "x", "y", "z"}

\* U+00E9, alphabetic, two bytes in UTF-8
EAcute == "é"
\* U+20AC, a currency symbol (not alphabetic), three bytes in UTF-8
Euro == "€"

Digits == {"0", "1", "2", "3", "4", "5", "6", "7", "8", "9"}

\* char::len_utf8
utf8_len(c) == IF c = EAcute THEN 2 ELSE IF c = Euro THEN 3 ELSE 1

\* the text of a character sequence, for display and comparison
RECURSIVE Str(_)
Str(s) == IF s = <<>> THEN "" ELSE Head(s) \o Str(Tail(s))

\* byte offset of the k-th character boundary (k characters precede it)
RECURSIVE byte_offset(_, _)
byte_offset(s, k) == IF k = 0 THEN 0 ELSE byte_offset(s, k - 1) + utf8_len(s[k])

\* str::len: the length in bytes
str_len(s) == byte_offset(s, Len(s))

\* str::chars().nth(n): the n-th character (from 0), None past the last one
chars_nth(s, n) == IF n < Len(s) THEN s[n + 1] ELSE None

\* str::is_char_boundary
is_char_boundary(s, b) == \E k \in 0..Len(s) : byte_offset(s, k) = b

\* &s[a..b]: indexes bytes, and panics unless both ends are character boundaries
slice_panics(s, a, b) == ~(a <= b /\ is_char_boundary(s, a) /\ is_char_boundary(s, b))

slice(s, a, b) ==
    LET i == CHOOSE k \in 0..Len(s) : byte_offset(s, k) = a
        j == CHOOSE k \in 0..Len(s) : byte_offset(s, k) = b
    IN SubSeq(s, i + 1, j)

(***************************************************************************)
(* Tokens (src/src/token.rs).                                              *)
(***************************************************************************)
TokenType ==
    {"Illegal", "Eof", "Ident", "Int", "Assign", "Plus", "Minus", "Bang",
     "Asterisk", "Slash", "Comma", "LessThan", "GreaterThan", "Semicolon",
     "LeftParen", "RightParen", "LeftBrace", "RightBrace", "Function", "Let",
     "True", "False", "If", "Else", "Return", "Equal", "NotEqual"}

\* Token::new
Token(token_type, literal) == [token_type |-> token_type, literal |-> literal]

\* the end-of-input token of next_token
EofToken == Token("Eof", <<>>)

\* TokenType::get_literal
get_literal(t) ==
    CASE t = "Int" -> "int"
      [] t = "Assign" -> "="
      [] t = "Plus" -> "+"
      [] t = "Minus" -> "-"
      [] t = "Bang" -> "!"
      [] t = "Asterisk" -> "*"
      [] t = "Slash" -> "/"
      [] t = "Comma" -> ","
      [] t = "LessThan" -> "<"
      [] t = "GreaterThan" -> ">"
      [] t = "Semicolon" -> ";"
      [] t = "LeftParen" -> "("
      [] t = "RightParen" -> ")"
      [] t = "LeftBrace" -> "{"
      [] t = "RightBrace" -> "}"
      [] t = "Function" -> "function"
      [] t = "Let" -> "let"
      [] t = "True" -> "true"
      [] t = "False" -> "false"
      [] t = "If" -> "if"
      [] t = "Else" -> "else"
      [] t = "Return" -> "return"
      [] t = "Equal" -> "=="
      [] t = "NotEqual" -> "!="
      [] OTHER -> ""

\* Precedence::value
Lowest == 1
Equals == 2
LessGreater == 3
Sum == 4
Product == 5
Prefix == 6
Call == 7

\* precedence with `(` at Call, and is_infix left as it is
precedence_with_call(t) ==
    CASE t \in {"Plus", "Minus"} -> Sum
      [] t \in {"Asterisk", "Slash"} -> Product
      [] t \in {"LessThan", "GreaterThan"} -> LessGreater
      [] t \in {"Equal", "NotEqual"} -> Equals
      [] t = "LeftParen" -> Call
      [] OTHER -> Lowest

\* TokenType::precedence, as the value of the level
precedence(t) ==
    CASE t \in {"Plus", "Minus"} -> Sum
      [] t \in {"Asterisk", "Slash"} -> Product
      [] t \in {"LessThan", "GreaterThan"} -> LessGreater
      [] t \in {"Equal", "NotEqual"} -> Equals
      [] OTHER -> Lowest

\* TokenType::is_infix
is_infix(t) ==
    t \in {"Plus", "Minus", "Asterisk", "Slash", "LessThan", "GreaterThan",
           "Equal", "NotEqual"}

(***************************************************************************)
(* The tokenizer (src/src/lexer.rs).  A lexer value is the record of       *)
(* position, read_position and ch; the text is the variable input.         *)
(***************************************************************************)
\* the KEYWORDS table
KEYWORDS ==
    [k \in {"fn", "let", "true", "false", "if", "else", "return"} |->
        CASE k = "fn" -> "Function"
          [] k = "let" -> "Let"
          [] k = "true" -> "True"
          [] k = "false" -> "False"
          [] k = "if" -> "If"
          [] k = "else" -> "Else"
          [] k = "return" -> "Return"]

\* read_char with the cursor rewound at the end of the text instead of moved on
read_char_rewinds(l) ==
    IF l.read_position >= str_len(input)
    THEN [ch |-> None, position |-> l.read_position, read_position |-> 0]
    ELSE [ch |-> chars_nth(input, l.read_position),
          position |-> l.read_position,
          read_position |-> l.read_position + 1]

\* read_char that moves read_position on and leaves position behind
read_char_keeps_position(l) ==
    [ch |-> IF l.read_position >= str_len(input)
            THEN None
            ELSE chars_nth(input, l.read_position),
     position |-> l.position,
     read_position |-> l.read_position + 1]

\* Lexer::read_char
read_char(l) ==
    [ch |-> IF l.read_position >= str_len(input)
            THEN None
            ELSE chars_nth(input, l.read_position),
     position |-> l.read_position,
     read_position |-> l.read_position + 1]

\* Lexer::new
new_lexer == read_char([ch |-> None, position |-> 0, read_position |-> 0])

\* peek_char that looks at the current character instead of the next one
peek_char_current(l) ==
    IF l.position >= str_len(input) THEN None ELSE chars_nth(input, l.position)

\* Lexer::peek_char
peek_char(l) ==
    IF l.read_position >= str_len(input)
    THEN None
    ELSE chars_nth(input, l.read_position)

\* Lexer::is_letter (char::is_alphabetic, or an underscore)
is_letter(c) == c \in AsciiLetters \cup {EAcute} \/ c = "_"

\* Lexer::is_digit
is_digit(c) == c \in Digits

\* Lexer::lookup_ident
lookup_ident(ident) ==
    IF Str(ident) \in DOMAIN KEYWORDS THEN KEYWORDS[Str(ident)] ELSE "Ident"

\* Lexer::skip_whitespace
RECURSIVE skip_whitespace(_)
skip_whitespace(l) ==
    IF l.ch # None /\ l.ch \in {" ", "\t", "\n", "\r"}
    THEN skip_whitespace(read_char(l))
    ELSE l

\* the while loop of read_identifier
RECURSIVE read_letters(_)
read_letters(l) ==
    IF l.ch # None /\ is_letter(l.ch) THEN read_letters(read_char(l)) ELSE l

\* the while loop of read_number
RECURSIVE read_digits(_)
read_digits(l) ==
    IF l.ch # None /\ is_digit(l.ch) THEN read_digits(read_char(l)) ELSE l

\* read_identifier with the slice one short at its end
read_identifier_one_short(l) ==
    LET l2 == read_letters(l)
        bad == slice_panics(input, l.position, l2.position - 1)
    IN [lexer |-> l2,
        panicked |-> bad,
        literal |-> IF bad THEN <<>> ELSE slice(input, l.position, l2.position - 1)]

\* Lexer::read_identifier: the lexer after the run, and the slice it returns
read_identifier(l) ==
    LET l2 == read_letters(l)
        bad == slice_panics(input, l.position, l2.position)
    IN [lexer |-> l2,
        panicked |-> bad,
        literal |-> IF bad THEN <<>> ELSE slice(input, l.position, l2.position)]

\* Lexer::read_number
read_number(l) ==
    LET l2 == read_digits(l)
        bad == slice_panics(input, l.position, l2.position)
    IN [lexer |-> l2,
        panicked |-> bad,
        literal |-> IF bad THEN <<>> ELSE slice(input, l.position, l2.position)]

\* a token returned after the trailing read_char of next_token
Emit(l, token_type, literal) ==
    [lexer |-> read_char(l), panicked |-> FALSE, token |-> Token(token_type, literal)]

\* the single-character arms with `<` and `>` exchanged
SingleCharTypeSwapped ==
    [c \in {"+", "-", "/", "*", "<", ">", ",", ";", "(", ")", "{", "}"} |->
        CASE c = "+" -> "Plus"
          [] c = "-" -> "Minus"
          [] c = "/" -> "Slash"
          [] c = "*" -> "Asterisk"
          [] c = "<" -> "GreaterThan"
          [] c = ">" -> "LessThan"
          [] c = "," -> "Comma"
          [] c = ";" -> "Semicolon"
          [] c = "(" -> "LeftParen"
          [] c = ")" -> "RightParen"
          [] c = "{" -> "LeftBrace"
          [] c = "}" -> "RightBrace"]

\* the single-character arms of the match in next_token
SingleCharType ==
    [c \in {"+", "-", "/", "*", "<", ">", ",", ";", "(", ")", "{", "}"} |->
        CASE c = "+" -> "Plus"
          [] c = "-" -> "Minus"
          [] c = "/" -> "Slash"
          [] c = "*" -> "Asterisk"
          [] c = "<" -> "LessThan"
          [] c = ">" -> "GreaterThan"
          [] c = "," -> "Comma"
          [] c = ";" -> "Semicolon"
          [] c = "(" -> "LeftParen"
          [] c = ")" -> "RightParen"
          [] c = "{" -> "LeftBrace"
          [] c = "}" -> "RightBrace"]

\* the arms of next_token that read an identifier or a number and return early
WordToken(l) ==
    LET r == IF is_letter(l.ch) THEN read_identifier(l) ELSE read_number(l)
    IN [lexer |-> r.lexer,
        panicked |-> r.panicked,
        token |-> Token(IF is_letter(l.ch) THEN lookup_ident(r.literal) ELSE "Int",
                        r.literal)]

\* Lexer::next_token: the lexer afterwards, the token returned, or a panic
lexer_next_token(l0) ==
    LET l == skip_whitespace(l0)
    IN CASE l.ch = "=" ->
              IF peek_char(l) = "="
              THEN Emit(read_char(l), "Equal", <<"=", "=">>)
              ELSE Emit(l, "Assign", <<"=">>)
         [] l.ch = "!" ->
              IF peek_char(l) = "="
              THEN Emit(read_char(l), "NotEqual", <<"!", "=">>)
              ELSE Emit(l, "Bang", <<"!">>)
         [] l.ch \in DOMAIN SingleCharType -> Emit(l, SingleCharType[l.ch], <<l.ch>>)
         [] l.ch = None -> Emit(l, "Eof", <<>>)
         [] OTHER ->
              IF is_letter(l.ch) \/ is_digit(l.ch)
              THEN WordToken(l)
              ELSE Emit(l, "Illegal", <<l.ch>>)

\* whether one more token may be pulled (the model's bound on the cursor)
CanPull == lexer.position < Len(input) + MaxPastEnd

(***************************************************************************)
(* The AST (src/src/ast).  A node is a record tagged by kind; the absent   *)
(* Option is the record NoneV.                                             *)
(***************************************************************************)
NoneV == [kind |-> "None"]

IdentExpression(token, value) == [kind |-> "Ident", token |-> token, value |-> value]

IntegerLiteral(token, value) == [kind |-> "Integer", token |-> token, value |-> value]

PrefixExpression(token, operator, right) ==
    [kind |-> "Prefix", token |-> token, operator |-> operator, right |-> right]

InfixExpression(token, left, operator, right) ==
    [kind |-> "Infix", token |-> token, left |-> left, operator |-> operator,
     right |-> right]

LetStatement(token, name, value) ==
    [kind |-> "Let", token |-> token, name |-> name, value |-> value]

ReturnStatement(token, value) == [kind |-> "Return", token |-> token, value |-> value]

ExpressionStatement(token, expression) ==
    [kind |-> "Expression", token |-> token, expression |-> expression]

\* NodeTrait::token_literal of a statement or an expression
token_literal(node) == Str(node.token.literal)

\* Display of expressions and statements
RECURSIVE to_string(_)
to_string(node) ==
    CASE node.kind = "Ident" -> Str(node.value)
      [] node.kind = "Integer" -> Str(node.value)
      [] node.kind = "Prefix" ->
            "(" \o Str(node.operator) \o to_string(node.right) \o ")"
      [] node.kind = "Infix" ->
            "(" \o to_string(node.left) \o " " \o Str(node.operator) \o " "
                \o to_string(node.right) \o ")"
      [] node.kind = "Let" ->
            token_literal(node) \o " " \o to_string(node.name) \o " = "
                \o to_string(node.value) \o ";"
      [] node.kind = "Return" ->
            token_literal(node) \o " " \o to_string(node.value) \o ";"
      [] node.kind = "Expression" -> to_string(node.expression)

\* Display of Program
RECURSIVE program_to_string(_)
program_to_string(stmts) ==
    IF stmts = <<>> THEN ""
    ELSE to_string(Head(stmts)) \o program_to_string(Tail(stmts))

(***************************************************************************)
(* str::parse::<i64> on the digits of an Int token.  The value is kept as  *)
(* its canonical decimal digits (what Display of an i64 prints).           *)
(***************************************************************************)
\* i64::MAX = 9223372036854775807
I64MaxDigits ==
    <<"9", "2", "2", "3", "3", "7", "2", "0", "3", "6", "8", "5", "4", "7", "7",
      "5", "8", "0", "7">>

DigitValue ==
    [c \in Digits |->
        CASE c = "0" -> 0 [] c = "1" -> 1 [] c = "2" -> 2 [] c = "3" -> 3
          [] c = "4" -> 4 [] c = "5" -> 5 [] c = "6" -> 6 [] c = "7" -> 7
          [] c = "8" -> 8 [] c = "9" -> 9]

\* the digits without leading zeros (one digit at least)
RECURSIVE strip_zeros(_)
strip_zeros(d) == IF Len(d) > 1 /\ Head(d) = "0" THEN strip_zeros(Tail(d)) ELSE d

\* a <= b for digit strings of one length
RECURSIVE digits_leq(_, _)
digits_leq(a, b) ==
    IF a = <<>> THEN TRUE
    ELSE IF DigitValue[Head(a)] # DigitValue[Head(b)]
         THEN DigitValue[Head(a)] < DigitValue[Head(b)]
         ELSE digits_leq(Tail(a), Tail(b))

\* whether the digits denote a value of at most the one limit denotes
magnitude_fits(d, limit) ==
    LET n == strip_zeros(d)
    IN \/ Len(n) < Len(limit)
       \/ Len(n) = Len(limit) /\ digits_leq(n, limit)

\* the test by the number of digits alone: every 19-digit number passes
fits_by_length(d) == Len(strip_zeros(d)) <= Len(I64MaxDigits)

\* whether the digits denote a value of at most i64::MAX
fits_i64(d) == magnitude_fits(d, I64MaxDigits)

\* the magnitude of i64::MIN = -9223372036854775808
I64MinDigits == SubSeq(I64MaxDigits, 1, 18) \o <<"8">>

\* str::parse::<i64>: the characters are read from the left after an optional
\* sign; the first one that is no digit, or that takes the value out of range,
\* ends the conversion with its error
parse_i64(lit) ==
    LET signed == lit # <<>> /\ Head(lit) \in {"+", "-"}
        negative == signed /\ Head(lit) = "-"
        body == IF signed THEN Tail(lit) ELSE lit
        bad == {i \in 1..Len(body) : body[i] \notin Digits}
        read == IF bad = {} THEN body
                ELSE SubSeq(body, 1, (CHOOSE i \in bad : \A j \in bad : i <= j) - 1)
        in_range == \/ read = <<>>
                    \/ IF negative THEN magnitude_fits(read, I64MinDigits)
                       ELSE fits_i64(read)
        n == strip_zeros(read)
    IN CASE lit = <<>> ->
              [ok |-> FALSE, error |-> "cannot parse integer from empty string"]
         [] lit # <<>> /\ body = <<>> ->
              [ok |-> FALSE, error |-> "invalid digit found in string"]
         [] body # <<>> /\ ~in_range ->
              [ok |-> FALSE,
               error |-> IF negative THEN "number too small to fit in target type"
                         ELSE "number too large to fit in target type"]
         [] body # <<>> /\ in_range /\ bad # {} ->
              [ok |-> FALSE, error |-> "invalid digit found in string"]
         [] OTHER ->
              [ok |-> TRUE,
               value |-> IF negative /\ n # <<"0">> THEN <<"-">> \o n ELSE n]

(***************************************************************************)
(* The parser (src/src/parser.rs).  A call of a parser function is a frame *)
(* of the stack: the function, the place it has reached, and its locals.   *)
(***************************************************************************)
Frame(fn, pc, prec, token, node) ==
    [fn |-> fn, pc |-> pc, precedence |-> prec, token |-> token, node |-> node]

Top == stack[Len(stack)]

\* the stack with the running call moved to place pc and node as its local
Goto(pc, node) == [stack EXCEPT ![Len(stack)] = [Top EXCEPT !.pc = pc, !.node = node]]

\* the running call moves to pc and calls callee
CallFrom(pc, callee) == Append(Goto(pc, Top.node), callee)

\* the running call returns v to its caller
Return(v) ==
    /\ stack' = SubSeq(stack, 1, Len(stack) - 1)
    /\ ret' = v

Running(fn, pc) ==
    /\ status = "parsing"
    /\ stack # <<>>
    /\ Top.fn = fn
    /\ Top.pc = pc

\* what Lexer::next_token returns when called now
Pull == lexer_next_token(lexer)

\* a panic unwinds the thread: nothing else is observable afterwards
Panic ==
    /\ status' = "panicked"
    /\ UNCHANGED <<input, earlier, lexer, emitted, cur_token, peek_token, errors,
                   statements, stack, ret>>

\* next_token with its two assignments in the other order
parser_next_token_reordered ==
    /\ peek_token' = Pull.token
    /\ cur_token' = peek_token'
    /\ lexer' = Pull.lexer
    /\ emitted' = Append(emitted, Pull.token)

\* Parser::next_token
parser_next_token ==
    /\ cur_token' = peek_token
    /\ peek_token' = Pull.token
    /\ lexer' = Pull.lexer
    /\ emitted' = Append(emitted, Pull.token)

\* the window and the tokenizer are left alone
NoAdvance == UNCHANGED <<cur_token, peek_token, lexer, emitted>>

\* Parser::cur_token_is
cur_token_is(t) == cur_token.token_type = t

\* Parser::peek_token_is
peek_token_is(t) == peek_token.token_type = t

\* Parser::cur_precedence
cur_precedence == precedence(cur_token.token_type)

\* Parser::peek_precedence
peek_precedence == precedence(peek_token.token_type)

\* the message of Parser::peek_error
peek_error_message(t) ==
    "expected next token to be \"" \o get_literal(t) \o "\", got \""
        \o get_literal(peek_token.token_type) \o "\" instead"

\* Parser::peek_error
peek_error(t) == errors' = Append(errors, peek_error_message(t))

\* expect_peek that advances on a mismatch too
expect_peek_always_advances(t) ==
    IF peek_token_is(t)
    THEN parser_next_token /\ UNCHANGED errors
    ELSE peek_error(t) /\ parser_next_token

\* Parser::expect_peek; its result is peek_token_is(t) of the state before
expect_peek(t) ==
    IF peek_token_is(t)
    THEN parser_next_token /\ UNCHANGED errors
    ELSE peek_error(t) /\ NoAdvance

\* Parser::new, and the call of parse_program on the new parser
ParserNew ==
    /\ status = "constructing"
    /\ LET r1 == lexer_next_token(lexer)
           r2 == lexer_next_token(r1.lexer)
       IN IF r1.panicked \/ r2.panicked
          THEN Panic
          ELSE /\ cur_token' = r1.token
               /\ peek_token' = r2.token
               /\ lexer' = r2.lexer
               /\ emitted' = <<r1.token, r2.token>>
               /\ status' = "parsing"
               /\ stack' = <<Frame("parse_program", "loop", Lowest, EofToken, NoneV)>>
               /\ UNCHANGED <<input, earlier, errors, statements, ret>>

\* Parser::parse_statement: the sub-parser the current token selects
parse_statement ==
    CASE cur_token.token_type = "Let" -> "parse_let_statement"
      [] cur_token.token_type = "Return" -> "parse_return_statement"
      [] OTHER -> "parse_expression_statement"

\* parse_program: the loop test, and the call of parse_statement
ProgramLoop ==
    /\ Running("parse_program", "loop")
    /\ IF cur_token_is("Eof")
       THEN /\ status' = "done"
            /\ stack' = <<>>
       ELSE /\ stack' = CallFrom("advance",
                                 Frame(parse_statement, "start", Lowest, EofToken, NoneV))
            /\ UNCHANGED status
    /\ UNCHANGED <<input, earlier, lexer, emitted, cur_token, peek_token, errors,
                   statements, ret>>

\* parse_program: the statement is pushed if there is one, and the window advances
ProgramAdvance ==
    /\ Running("parse_program", "advance")
    /\ CanPull
    /\ IF Pull.panicked
       THEN Panic
       ELSE /\ statements' = IF ret # NoneV THEN Append(statements, ret) ELSE statements
            /\ parser_next_token
            /\ stack' = Goto("loop", NoneV)
            /\ UNCHANGED <<input, earlier, status, errors, ret>>

\* the binding name taken before the window has moved onto the identifier
binding_name_stale == IdentExpression(cur_token, cur_token.literal)

\* the binding name of parse_let_statement: the current token after expect_peek
binding_name == IdentExpression(cur_token', cur_token'.literal)

\* parse_let_statement: expect_peek(Ident), and the binding name
LetExpectIdent ==
    /\ Running("parse_let_statement", "start")
    /\ peek_token_is("Ident") => CanPull
    /\ IF peek_token_is("Ident") /\ Pull.panicked
       THEN Panic
       ELSE /\ expect_peek("Ident")
            /\ IF peek_token_is("Ident")
               THEN /\ stack' = Goto("expect_assign", binding_name)
                    /\ UNCHANGED ret
               ELSE Return(NoneV)
            /\ UNCHANGED <<input, earlier, status, statements>>

\* parse_let_statement: expect_peek(Assign)
LetExpectAssign ==
    /\ Running("parse_let_statement", "expect_assign")
    /\ peek_token_is("Assign") => CanPull
    /\ IF peek_token_is("Assign") /\ Pull.panicked
       THEN Panic
       ELSE /\ expect_peek("Assign")
            /\ IF peek_token_is("Assign")
               THEN /\ stack' = Goto("skip", Top.node)
                    /\ UNCHANGED ret
               ELSE Return(NoneV)
            /\ UNCHANGED <<input, earlier, status, statements>>

\* parse_let_statement: one turn of the loop that skips to the semicolon
LetSkip ==
    /\ Running("parse_let_statement", "skip")
    /\ ~cur_token_is("Semicolon")
    /\ CanPull
    /\ IF Pull.panicked
       THEN Panic
       ELSE /\ parser_next_token
            /\ UNCHANGED <<input, earlier, status, errors, statements, stack, ret>>

\* the statement parse_let_statement builds once the loop has ended
let_stmt ==
    LetStatement(cur_token, Top.node,
                 IdentExpression(cur_token, cur_token.literal))

\* parse_let_statement: the statement is built and returned
LetFinish ==
    /\ Running("parse_let_statement", "skip")
    /\ cur_token_is("Semicolon")
    /\ Return(let_stmt)
    /\ NoAdvance
    /\ UNCHANGED <<input, earlier, status, errors, statements>>

\* the placeholder value of parse_return_statement
dummy_value == IdentExpression(Token("Ident", <<"f", "o", "o">>), <<"f", "o", "o">>)

\* parse_return_statement: the statement is built, and the window advances once
ReturnStart ==
    /\ Running("parse_return_statement", "start")
    /\ CanPull
    /\ IF Pull.panicked
       THEN Panic
       ELSE /\ parser_next_token
            /\ stack' = Goto("skip", ReturnStatement(cur_token, dummy_value))
            /\ UNCHANGED <<input, earlier, status, errors, statements, ret>>

\* parse_return_statement: one turn of the loop that skips to the semicolon
ReturnSkip ==
    /\ Running("parse_return_statement", "skip")
    /\ ~cur_token_is("Semicolon")
    /\ CanPull
    /\ IF Pull.panicked
       THEN Panic
       ELSE /\ parser_next_token
            /\ UNCHANGED <<input, earlier, status, errors, statements, stack, ret>>

\* parse_return_statement: the statement is returned
ReturnFinish ==
    /\ Running("parse_return_statement", "skip")
    /\ cur_token_is("Semicolon")
    /\ Return(Top.node)
    /\ NoAdvance
    /\ UNCHANGED <<input, earlier, status, errors, statements>>

\* parse_expression_statement: the call of parse_expression(Lowest)
ExprStmtStart ==
    /\ Running("parse_expression_statement", "start")
    /\ stack' = CallFrom("finish", Frame("parse_expression", "prefix", Lowest, EofToken, NoneV))
    /\ NoAdvance
    /\ UNCHANGED <<input, earlier, status, errors, statements, ret>>

\* parse_expression_statement with the semicolon required, as expect_peek would
ExprStmtFinishRequiresSemicolon ==
    /\ Running("parse_expression_statement", "finish")
    /\ IF ret = NoneV
       THEN /\ Return(NoneV)
            /\ NoAdvance
            /\ UNCHANGED <<input, earlier, status, errors, statements>>
       ELSE /\ peek_token_is("Semicolon") => CanPull
            /\ IF peek_token_is("Semicolon") /\ Pull.panicked
               THEN Panic
               ELSE /\ expect_peek("Semicolon")
                    /\ Return(IF peek_token_is("Semicolon")
                              THEN ExpressionStatement(cur_token, ret)
                              ELSE NoneV)
                    /\ UNCHANGED <<input, earlier, status, statements>>

\* parse_expression_statement: `?`, the statement, and the optional semicolon
ExprStmtFinish ==
    /\ Running("parse_expression_statement", "finish")
    /\ IF ret = NoneV
       THEN /\ Return(NoneV)
            /\ NoAdvance
            /\ UNCHANGED <<input, earlier, status, errors, statements>>
       ELSE /\ peek_token_is("Semicolon") => CanPull
            /\ IF peek_token_is("Semicolon") /\ Pull.panicked
               THEN Panic
               ELSE /\ Return(ExpressionStatement(cur_token, ret))
                    /\ IF peek_token_is("Semicolon") THEN parser_next_token ELSE NoAdvance
                    /\ UNCHANGED <<input, earlier, status, errors, statements>>

\* Parser::parse_identifier
parse_identifier == IdentExpression(cur_token, cur_token.literal)

\* Parser::parse_integer_literal: the expression, or none and a message
parse_integer_literal ==
    LET parsed == parse_i64(cur_token.literal)
    IN IF parsed.ok
       THEN [expression |-> IntegerLiteral(cur_token, parsed.value), messages |-> <<>>]
       ELSE [expression |-> NoneV,
             messages |-> <<"Could not parse " \o Str(cur_token.literal)
                              \o " as integer: " \o parsed.error>>]

\* prefix_parse with a diagnostic where no arm matches
no_prefix_reported ==
    <<"no prefix parse function for " \o get_literal(cur_token.token_type) \o " found">>

\* the messages prefix_parse records where no arm matches (`_ => None`): none
no_prefix_messages == <<>>

\* parse_expression: prefix_parse on the current token
ExprPrefix ==
    /\ Running("parse_expression", "prefix")
    /\ CASE cur_token_is("Ident") ->
              /\ stack' = Goto("loop", parse_identifier)
              /\ UNCHANGED errors
         [] cur_token_is("Int") ->
              /\ stack' = Goto("loop", parse_integer_literal.expression)
              /\ errors' = errors \o parse_integer_literal.messages
         [] cur_token_is("Minus") \/ cur_token_is("Bang") ->
              /\ stack' = CallFrom("assign",
                                   Frame("parse_prefix_expression", "start", Lowest,
                                         EofToken, NoneV))
              /\ UNCHANGED errors
         [] OTHER ->
              /\ stack' = Goto("loop", NoneV)
              /\ errors' = errors \o no_prefix_messages
    /\ NoAdvance
    /\ UNCHANGED <<input, earlier, status, statements, ret>>

\* parse_expression: left_expression takes what the prefix or infix parser returned
ExprAssign ==
    /\ Running("parse_expression", "assign")
    /\ stack' = Goto("loop", ret)
    /\ NoAdvance
    /\ UNCHANGED <<input, earlier, status, errors, statements, ret>>

\* the loop condition with <= for <
climbs_on_equal(prec) == ~peek_token_is("Semicolon") /\ prec <= peek_precedence

\* the condition of the while loop of parse_expression
climbs(prec) == ~peek_token_is("Semicolon") /\ prec < peek_precedence

\* parse_expression: one turn of the loop, up to the call of parse_infix_expression
ExprLoop ==
    /\ Running("parse_expression", "loop")
    /\ LET advances == climbs(Top.precedence) /\ is_infix(peek_token.token_type)
       IN /\ advances => CanPull
          /\ IF advances /\ Pull.panicked
             THEN Panic
             ELSE /\ IF ~advances
                     THEN /\ Return(Top.node)
                          /\ NoAdvance
                     ELSE /\ parser_next_token
                          /\ IF Top.node = NoneV
                             THEN Return(NoneV)
                             ELSE /\ stack' = CallFrom("assign",
                                                       Frame("parse_infix_expression",
                                                             "start", Lowest, EofToken,
                                                             Top.node))
                                  /\ UNCHANGED ret
                  /\ UNCHANGED <<input, earlier, status, errors, statements>>

\* the operand of a prefix operator parsed like a whole expression
operand_precedence_lowest == Lowest

\* the precedence parse_prefix_expression passes for its operand
operand_precedence == Prefix

\* parse_prefix_expression: up to the call of parse_expression(Prefix)
PrefixStart ==
    /\ Running("parse_prefix_expression", "start")
    /\ CanPull
    /\ IF Pull.panicked
       THEN Panic
       ELSE /\ parser_next_token
            /\ stack' = Append([stack EXCEPT ![Len(stack)] =
                                    [Top EXCEPT !.pc = "finish", !.token = cur_token]],
                               Frame("parse_expression", "prefix", operand_precedence,
                                     EofToken, NoneV))
            /\ UNCHANGED <<input, earlier, status, errors, statements, ret>>

\* parse_prefix_expression: `?`, and the prefix expression
PrefixFinish ==
    /\ Running("parse_prefix_expression", "finish")
    /\ Return(IF ret = NoneV THEN NoneV
              ELSE PrefixExpression(Top.token, Top.token.literal, ret))
    /\ NoAdvance
    /\ UNCHANGED <<input, earlier, status, errors, statements>>

\* the right operand parsed one level lower than the operator
right_precedence_lower == cur_precedence - 1

\* the precedence parse_infix_expression passes for its right operand
right_precedence == cur_precedence

\* parse_infix_expression: up to the call of parse_expression for the right side
InfixStart ==
    /\ Running("parse_infix_expression", "start")
    /\ CanPull
    /\ IF Pull.panicked
       THEN Panic
       ELSE /\ parser_next_token
            /\ stack' = Append([stack EXCEPT ![Len(stack)] =
                                    [Top EXCEPT !.pc = "finish", !.token = cur_token,
                                                !.precedence = right_precedence]],
                               Frame("parse_expression", "prefix", right_precedence,
                                     EofToken, NoneV))
            /\ UNCHANGED <<input, earlier, status, errors, statements, ret>>

\* parse_infix_expression: `?`, and the infix expression
InfixFinish ==
    /\ Running("parse_infix_expression", "finish")
    /\ Return(IF ret = NoneV THEN NoneV
              ELSE InfixExpression(Top.token, Top.node, Top.token.literal, ret))
    /\ NoAdvance
    /\ UNCHANGED <<input, earlier, status, errors, statements>>

(***************************************************************************)
(* Source texts.                                                           *)
(***************************************************************************)
\* all sequences over S of length at most n
RECURSIVE SeqsUpTo(_, _)
SeqsUpTo(S, n) ==
    IF n = 0 THEN {<<>>}
    ELSE LET shorter == SeqsUpTo(S, n - 1)
         IN shorter \cup {Append(s, c) : s \in shorter, c \in S}

\* the concatenation of a sequence of sequences
RECURSIVE Flatten(_)
Flatten(ss) == IF ss = <<>> THEN <<>> ELSE Head(ss) \o Flatten(Tail(ss))

PunctChars == {"+", "-", "*", "/", "<", ">", ",", ";", "(", ")", "{", "}"}

FreeChars == {"=", "!", ";", "a", "5", " ", EAcute, Euro}

Words ==
    {<<"f", "n">>, <<"l", "e", "t">>, <<"t", "r", "u", "e">>,
     <<"f", "a", "l", "s", "e">>, <<"i", "f">>, <<"e", "l", "s", "e">>,
     <<"r", "e", "t", "u", "r", "n">>, <<"l", "e">>, <<"s">>, <<"_">>,
     <<" ">>, <<"\n">>, <<"\t">>, <<"\r">>, <<"7">>, <<"@">>, <<"-">>, <<EAcute>>}

LexInputs ==
    SeqsUpTo(FreeChars, MaxLen)
        \cup SeqsUpTo(PunctChars, MaxPunctLen)
        \cup {Flatten(ws) : ws \in SeqsUpTo(Words, MaxWords)}

\* the infix operators, as written
InfixOps ==
    {<<"=", "=">>, <<"!", "=">>, <<"<">>, <<">">>, <<"+">>, <<"-">>, <<"*">>, <<"/">>}

\* one operator of each of the two lower levels, both of each of the two higher
\* ones: enough for every order of levels and for equal levels, in longer chains
CoreOps == {<<"=", "=">>, <<"<">>, <<"+">>, <<"-">>, <<"*">>, <<"/">>}

\* the operands of a generated expression, by place
Operands == <<"a", "b", "5", "d", "e", "f", "g", "h">>

\* operand (op operand)*, the tokens one space apart, for each choice of operators
ExprText(ops) ==
    <<Operands[1]>>
        \o Flatten([i \in 1..Len(ops) |-> <<" ">> \o ops[i] \o <<" ", Operands[i + 1]>>])

\* chains of up to MaxOps operators, the longest over CoreOps only; the shorter
\* ones also with a semicolon after them
ExprInputs ==
    LET short == {ExprText(ops) : ops \in SeqsUpTo(InfixOps, MaxOps - 1)}
        long == {ExprText(ops) : ops \in SeqsUpTo(CoreOps, MaxOps)}
    IN short \cup long \cup {Append(t, ";") : t \in short}

\* statements, well formed and not
StmtTexts ==
    {<<"l", "e", "t", " ", "x", " ", "=", " ", "5", ";">>,
     <<"l", "e", "t", " ", "y", " ", "=", " ", "a", " ", "+", " ", "5", ";">>,
     <<"l", "e", "t", " ", "f", "o", "o", " ", "=", " ", ";">>,
     <<"l", "e", "t", " ", "y", " ", "=", " ", "l", "e", "t", " ", "=", " ", "7", ";">>,
     <<"l", "e", "t", " ", "é", "a", " ", "=", " ", "5", ";">>,
     <<"l", "e", "t", " ", "x", " ", "5", ";">>,
     <<"l", "e", "t", " ", "=", " ", "5", ";">>,
     <<"l", "e", "t", " ", "x", " ", "=", " ", "5">>,
     <<"r", "e", "t", "u", "r", "n", " ", "5", ";">>,
     <<"r", "e", "t", "u", "r", "n", " ", "a">>}

\* up to MaxStmts statements, one space apart
StmtInputs ==
    {Flatten([i \in 1..Len(ss) |-> IF i = 1 THEN ss[i] ELSE <<" ">> \o ss[i]]) :
        ss \in SeqsUpTo(StmtTexts, MaxStmts)}

\* integer literals around i64::MAX, with leading zeros and without
IntTexts ==
    {<<"0">>,
     <<"5">>,
     <<"0", "0", "7">>,
     <<"9", "2", "2", "3", "3", "7", "2", "0", "3", "6", "8", "5", "4", "7", "7", "5", "8", "0", "7">>,
     <<"9", "2", "2", "3", "3", "7", "2", "0", "3", "6", "8", "5", "4", "7", "7", "5", "8", "0", "8">>,
     <<"0", "9", "2", "2", "3", "3", "7", "2", "0", "3", "6", "8", "5", "4", "7", "7", "5", "8", "0", "7">>,
     <<"9", "2", "2", "3", "3", "7", "2", "0", "3", "6", "8", "5", "4", "7", "7", "5", "8", "1", "7">>,
     <<"1", "0", "0", "0", "0", "0", "0", "0", "0", "0", "0", "0", "0", "0", "0", "0", "0", "0", "0", "0">>,
     <<"9", "9", "9", "9", "9", "9", "9", "9", "9", "9", "9", "9", "9", "9", "9", "9", "9", "9", "9", "9">>}

\* an integer literal as a statement, alone or negated
IntInputs == IntTexts \cup {<<"-">> \o t : t \in IntTexts}

ParseInputs ==
    SeqsUpTo(FreeChars, MaxLen) \cup ExprInputs \cup StmtInputs \cup IntInputs

Init ==
    /\ \/ input \in LexInputs /\ status = "lexing"
       \/ input \in ParseInputs /\ status = "constructing"
    /\ lexer = new_lexer
    /\ emitted = <<>>
    /\ cur_token = EofToken
    /\ peek_token = EofToken
    /\ errors = <<>>
    /\ statements = <<>>
    /\ stack = <<>>
    /\ ret = NoneV
    /\ earlier = NoneV

\* a client calls Lexer::next_token (the loop of repl.rs)
LexerNextToken ==
    /\ status = "lexing"
    /\ CanPull
    /\ LET r == lexer_next_token(lexer)
       IN IF r.panicked
          THEN /\ status' = "panicked"
               /\ UNCHANGED <<lexer, emitted>>
          ELSE /\ lexer' = r.lexer
               /\ emitted' = Append(emitted, r.token)
               /\ UNCHANGED status
    /\ UNCHANGED <<input, earlier, cur_token, peek_token, errors, statements, stack, ret>>

Next ==
    \/ LexerNextToken
    \/ ParserNew
    \/ ProgramLoop
    \/ ProgramAdvance
    \/ LetExpectIdent
    \/ LetExpectAssign
    \/ LetSkip
    \/ LetFinish
    \/ ReturnStart
    \/ ReturnSkip
    \/ ReturnFinish
    \/ ExprStmtStart
    \/ ExprStmtFinish
    \/ ExprPrefix
    \/ ExprAssign
    \/ ExprLoop
    \/ PrefixStart
    \/ PrefixFinish
    \/ InfixStart
    \/ InfixFinish

Spec == Init /\ [][Next]_vars

(***************************************************************************)
(* Texts without `;`, `let` and `return`, each parsed twice as the tests   *)
(* parse a list of texts: by a Parser on the text, and, once that one is   *)
(* through, by a new Parser on the text with a semicolon after it.         *)
(***************************************************************************)
\* operands and operators for the longest texts
DeepAtoms == {<<"a">>, <<"-">>, <<"!">>, <<"*">>}

\* more operands and operators, and a token without a prefix rule
MidAtoms == DeepAtoms \cup {<<"5">>, <<"<">>, <<"(">>}

\* the other operators, more tokens without a prefix rule, and letters of two bytes
WideAtoms ==
    MidAtoms \cup {<<"=", "=">>, <<"+">>, <<"=">>, <<"@">>, <<")">>, <<EAcute>>,
                   <<EAcute, "a">>}

\* the texts of up to n atoms, one space apart
TokTexts(atoms, n) ==
    {Flatten([i \in 1..Len(as) |-> IF i = 1 THEN as[i] ELSE <<" ">> \o as[i]]) :
        as \in SeqsUpTo(atoms, n)}

\* the longer the text, the fewer the atoms it is made of
PairInputs ==
    TokTexts(DeepAtoms, MaxToks) \cup TokTexts(MidAtoms, MaxToks - 1)
        \cup TokTexts(WideAtoms, MaxToks - 2)

PairInit ==
    /\ input \in PairInputs
    /\ status = "constructing"
    /\ lexer = new_lexer
    /\ emitted = <<>>
    /\ cur_token = EofToken
    /\ peek_token = EofToken
    /\ errors = <<>>
    /\ statements = <<>>
    /\ stack = <<>>
    /\ ret = NoneV
    /\ earlier = NoneV

\* the first parse is through (it has returned, or panicked): its outcome is
\* kept, and a new Lexer and Parser are set on the text with `;` appended
ParseAgainWithSemicolon ==
    /\ status \in {"done", "panicked"}
    /\ earlier = NoneV
    /\ earlier' = [kind |-> "Parsed", outcome |-> status, statements |-> statements,
                   errors |-> errors]
    /\ input' = Append(input, ";")
    /\ lexer' = new_lexer'
    /\ status' = "constructing"
    /\ emitted' = <<>>
    /\ cur_token' = EofToken
    /\ peek_token' = EofToken
    /\ errors' = <<>>
    /\ statements' = <<>>
    /\ stack' = <<>>
    /\ ret' = NoneV

PairNext ==
    \/ ParserNew
    \/ ProgramLoop
    \/ ProgramAdvance
    \/ ExprStmtStart
    \/ ExprStmtFinish
    \/ ExprPrefix
    \/ ExprAssign
    \/ ExprLoop
    \/ PrefixStart
    \/ PrefixFinish
    \/ InfixStart
    \/ InfixFinish
    \/ ParseAgainWithSemicolon

PairSpec == PairInit /\ [][PairNext]_vars

(***************************************************************************)
(* What the text holds, read apart from the run: used to state properties. *)
(***************************************************************************)
\* the token that marks a panic of the tokenizer in source_tokens
PanicMark == Token("Illegal", <<"p", "a", "n", "i", "c">>)

\* the tokens before end-of-input that next_token returns from lexer state l
RECURSIVE tokens_from(_)
tokens_from(l) ==
    LET r == lexer_next_token(l)
    IN IF r.panicked THEN <<PanicMark>>
       ELSE IF r.token.token_type = "Eof" THEN <<>>
       ELSE <<r.token>> \o tokens_from(r.lexer)

\* the tokens of the whole text
source_tokens == tokens_from(new_lexer)

\* how many of the tokens are not end-of-input
RECURSIVE CountTokens(_)
CountTokens(toks) ==
    IF toks = <<>> THEN 0
    ELSE (IF Head(toks).token_type = "Eof" THEN 0 ELSE 1) + CountTokens(Tail(toks))

\* the tokens the parser has consumed: those pulled that have left its window
TokensConsumed == CountTokens(emitted) - CountTokens(<<cur_token, peek_token>>)

(***************************************************************************)
(* C1.  parse_program terminates on every text.  A step of the running     *)
(* parser either consumes a token, or moves on in the code (the call stack *)
(* changes), or ends the parse; a step that does none of these leaves the  *)
(* parser where it was, and repeats forever.                               *)
(***************************************************************************)
C1_ParseProgramTerminates ==
    [][status = "parsing" =>
          \/ TokensConsumed' > TokensConsumed
          \/ stack' # stack
          \/ status' # "parsing"]_vars

(***************************************************************************)
(* C2.  The tokenizer never fails hard: no call of next_token panics,      *)
(* whatever characters the text holds.                                     *)
(***************************************************************************)
C2_TokenizerNeverPanics == status # "panicked"

(***************************************************************************)
(* C3.  The reference tree of operand (op operand)*: the operator that is  *)
(* applied last is the rightmost among those of the lowest precedence, so  *)
(* equal precedence associates to the left and higher precedence binds     *)
(* tighter.                                                                *)
(***************************************************************************)
\* the tokens without one trailing semicolon
WithoutSemicolon(toks) ==
    IF toks # <<>> /\ toks[Len(toks)].token_type = "Semicolon"
    THEN SubSeq(toks, 1, Len(toks) - 1)
    ELSE toks

\* operand (op operand)*: identifiers or integers that fit, joined by infix operators
IsInfixChain(toks) ==
    /\ Len(toks) % 2 = 1
    /\ \A i \in 1..Len(toks) :
          IF i % 2 = 1
          THEN \/ toks[i].token_type = "Ident"
               \/ /\ toks[i].token_type = "Int"
                  /\ \A k \in 1..Len(toks[i].literal) : toks[i].literal[k] \in Digits
                  /\ fits_i64(toks[i].literal)
          ELSE toks[i].token_type \in
                  {"Equal", "NotEqual", "LessThan", "GreaterThan", "Plus", "Minus",
                   "Asterisk", "Slash"}

\* the place of the operator applied last
RootOf(toks) ==
    LET ops == {i \in 1..Len(toks) : i % 2 = 0}
        low == {i \in ops : \A j \in ops :
                    precedence(toks[i].token_type) <= precedence(toks[j].token_type)}
    IN CHOOSE i \in low : \A j \in low : j <= i

RECURSIVE RefTree(_)
RefTree(toks) ==
    IF Len(toks) = 1
    THEN IF toks[1].token_type = "Ident"
         THEN IdentExpression(toks[1], toks[1].literal)
         ELSE IntegerLiteral(toks[1], strip_zeros(toks[1].literal))
    ELSE LET r == RootOf(toks)
         IN InfixExpression(toks[r], RefTree(SubSeq(toks, 1, r - 1)), toks[r].literal,
                            RefTree(SubSeq(toks, r + 1, Len(toks))))

\* the fully parenthesised text of the reference tree, from the tokens (an
\* integer operand is printed as its value, without leading zeros)
RECURSIVE RefParen(_)
RefParen(toks) ==
    IF Len(toks) = 1
    THEN IF toks[1].token_type = "Int"
         THEN Str(strip_zeros(toks[1].literal))
         ELSE Str(toks[1].literal)
    ELSE LET r == RootOf(toks)
         IN "(" \o RefParen(SubSeq(toks, 1, r - 1)) \o " " \o Str(toks[r].literal)
                \o " " \o RefParen(SubSeq(toks, r + 1, Len(toks))) \o ")"

\* C3: when parse_program has returned on an infix chain, the program is the one
\* expression statement of the reference tree, it renders as the fully
\* parenthesised text of that tree, and there are no errors
C3_PrecedenceClimbing ==
    LET chain == WithoutSemicolon(source_tokens)
    IN (status = "done" /\ IsInfixChain(chain)) =>
          /\ Len(statements) = 1
          /\ statements[1].kind = "Expression"
          /\ statements[1].expression = RefTree(chain)
          /\ program_to_string(statements) = RefParen(chain)
          /\ errors = <<>>

\* a chain of three operators parsed: + then * (binds tighter) then - (to the left)
C3_Witness ==
    /\ status = "done"
    /\ IsInfixChain(WithoutSemicolon(source_tokens))
    /\ Str(input) = "a + b * 5 - d"
    /\ program_to_string(statements) = "((a + (b * 5)) - d)"

(***************************************************************************)
(* C4.  A text whose tokens are N statements `let <identifier> = ... ;`    *)
(* yields N Let statements, named by the identifiers in order, no errors.  *)
(***************************************************************************)
\* the place of the first semicolon at or after place i, 0 if there is none
FirstSemicolon(toks, i) ==
    LET at == {j \in i..Len(toks) : toks[j].token_type = "Semicolon"}
    IN IF at = {} THEN 0 ELSE CHOOSE j \in at : \A k \in at : j <= k

\* whether the tokens are let statements of that form, one after the other
RECURSIVE IsLetList(_)
IsLetList(toks) ==
    \/ toks = <<>>
    \/ /\ Len(toks) >= 4
       /\ toks[1].token_type = "Let"
       /\ toks[2].token_type = "Ident"
       /\ toks[3].token_type = "Assign"
       /\ FirstSemicolon(toks, 4) # 0
       /\ IsLetList(SubSeq(toks, FirstSemicolon(toks, 4) + 1, Len(toks)))

\* the identifiers the let statements of such a list bind, in order
RECURSIVE LetNames(_)
LetNames(toks) ==
    IF toks = <<>> THEN <<>>
    ELSE <<toks[2]>> \o LetNames(SubSeq(toks, FirstSemicolon(toks, 4) + 1, Len(toks)))

\* C4: when parse_program has returned on such a list, the statements are Let
\* statements, one for each identifier and named by it, and there are no errors
C4_LetStatements ==
    (status = "done" /\ IsLetList(source_tokens)) =>
        LET names == LetNames(source_tokens)
        IN /\ Len(statements) = Len(names)
           /\ \A i \in 1..Len(names) :
                 /\ statements[i].kind = "Let"
                 /\ statements[i].name = IdentExpression(names[i], names[i].literal)
           /\ errors = <<>>

\* two let statements parsed, the second with a keyword and an operator in its value
C4_Witness ==
    /\ status = "done"
    /\ IsLetList(source_tokens)
    /\ Str(input) = "let foo = ; let y = let = 7;"
    /\ Len(statements) = 2
    /\ Str(statements[1].name.value) = "foo"
    /\ Str(statements[2].name.value) = "y"

(***************************************************************************)
(* C5.  Every statement of the program keeps the token it starts with:     *)
(* `let`, `return`, or the first token of the expression.                  *)
(***************************************************************************)
\* the leftmost token of an expression
RECURSIVE FirstToken(_)
FirstToken(e) == IF e.kind = "Infix" THEN FirstToken(e.left) ELSE e.token

C5_StatementKeepsItsToken ==
    \A i \in 1..Len(statements) :
        CASE statements[i].kind = "Let" ->
                /\ statements[i].token.token_type = "Let"
                /\ token_literal(statements[i]) = "let"
          [] statements[i].kind = "Return" ->
                /\ statements[i].token.token_type = "Return"
                /\ token_literal(statements[i]) = "return"
          [] OTHER -> statements[i].token = FirstToken(statements[i].expression)

(***************************************************************************)
(* C6.  End-of-input is idempotent: after an end-of-input token, every     *)
(* later token is an end-of-input token, and each has the empty literal.   *)
(***************************************************************************)
C6_EofIsIdempotent ==
    \A i \in 1..Len(emitted) :
        emitted[i].token_type = "Eof" =>
            /\ emitted[i].literal = <<>>
            /\ \A j \in i..Len(emitted) : emitted[j] = EofToken

\* a token, and then next_token called three more times at the end of the text
C6_Witness ==
    /\ Len(emitted) = 4
    /\ emitted[1].token_type = "Ident"
    /\ \A j \in 2..4 : emitted[j] = EofToken

(***************************************************************************)
(* C7.  At `=` or `!`, next_token returns the two-character token exactly  *)
(* when the next character of the text is `=`, and the tokenizer is left   *)
(* on the character right after the token.                                 *)
(***************************************************************************)
\* the tokenizer standing on the character at place p of the text (from 0)
StandsAt(l, p) == l.position = p /\ l.ch = chars_nth(input, p)

\* C7: in every state, the call of next_token that would come next obeys the rule
C7_TwoCharacterOperators ==
    LET l == skip_whitespace(lexer)
        r == lexer_next_token(lexer)
        two == chars_nth(input, l.position + 1) = "="
    IN l.ch \in {"=", "!"} =>
          /\ ~r.panicked
          /\ r.token = CASE l.ch = "=" /\ two -> Token("Equal", <<"=", "=">>)
                         [] l.ch = "=" /\ ~two -> Token("Assign", <<"=">>)
                         [] l.ch = "!" /\ two -> Token("NotEqual", <<"!", "=">>)
                         [] l.ch = "!" /\ ~two -> Token("Bang", <<"!">>)
          /\ StandsAt(r.lexer, l.position + (IF two THEN 2 ELSE 1))

\* `==!`: `==` has been returned as one token, and the tokenizer stands on the `!`
\* right after it, the last character of the text
C7_Witness ==
    /\ emitted = <<Token("Equal", <<"=", "=">>)>>
    /\ lexer.ch = "!"
    /\ lexer.position = 2
    /\ peek_char(lexer) = None

(***************************************************************************)
(* C8.  At a letter or underscore, next_token returns the maximal run of   *)
(* letters and underscores as the literal, classified as a keyword or as   *)
(* an identifier, and the tokenizer is left on the character after it.     *)
(***************************************************************************)
\* the length of the run of letters and underscores from place p of the text
RECURSIVE RunLength(_)
RunLength(p) ==
    IF p < Len(input) /\ (input[p + 1] \in AsciiLetters \cup {EAcute, "_"})
    THEN 1 + RunLength(p + 1)
    ELSE 0

\* the kind of a word
WordKind(text) ==
    CASE text = "fn" -> "Function"
      [] text = "let" -> "Let"
      [] text = "true" -> "True"
      [] text = "false" -> "False"
      [] text = "if" -> "If"
      [] text = "else" -> "Else"
      [] text = "return" -> "Return"
      [] OTHER -> "Ident"

\* C8: in every state, the call of next_token that would come next obeys the rule
C8_IdentifiersAndKeywords ==
    LET l == skip_whitespace(lexer)
        r == lexer_next_token(lexer)
        run == SubSeq(input, l.position + 1, l.position + RunLength(l.position))
    IN (l.ch # None /\ l.ch \in AsciiLetters \cup {EAcute, "_"}) =>
          /\ ~r.panicked
          /\ r.token = Token(WordKind(Str(run)), run)
          /\ StandsAt(r.lexer, l.position + Len(run))

(***************************************************************************)
(* C9.  On a text of single-character punctuation only, the tokens are one *)
(* for each character, in order and of its kind, and then end-of-input.    *)
(***************************************************************************)
C9_PunctuationOneTokenEach ==
    (\A k \in 1..Len(input) : input[k] \in PunctChars) =>
        /\ status # "panicked"
        /\ \A i \in 1..Len(emitted) :
              IF i <= Len(input)
              THEN /\ emitted[i].literal = <<input[i]>>
                   /\ get_literal(emitted[i].token_type) = input[i]
              ELSE emitted[i] = EofToken

\* two punctuation characters tokenized, and end-of-input twice after them
C9_Witness ==
    /\ Str(input) = "<}"
    /\ status = "lexing"
    /\ Len(emitted) = 4
    /\ emitted[1].token_type = "LessThan"
    /\ emitted[2].token_type = "RightBrace"
    /\ emitted[3] = EofToken
    /\ emitted[4] = EofToken

(***************************************************************************)
(* C10.  expect_peek, where parse_let_statement calls it: on a mismatch    *)
(* one message is appended, the window and the tokenizer are left alone    *)
(* and the result is false (the statement is given up); on a match the     *)
(* window advances by one token, the errors are left alone and the result  *)
(* is true (the statement goes on).                                        *)
(***************************************************************************)
C10_ExpectPeekFrame ==
    [][(/\ status = "parsing"
        /\ Top.fn = "parse_let_statement"
        /\ Top.pc \in {"start", "expect_assign"}
        /\ status' = "parsing")
       => LET kind == IF Top.pc = "start" THEN "Ident" ELSE "Assign"
          IN IF peek_token.token_type = kind
             THEN /\ cur_token' = peek_token
                  /\ Len(emitted') = Len(emitted) + 1
                  /\ SubSeq(emitted', 1, Len(emitted)) = emitted
                  /\ peek_token' = emitted'[Len(emitted')]
                  /\ lexer'.position > lexer.position
                  /\ errors' = errors
                  /\ Len(stack') = Len(stack)
             ELSE /\ Len(errors') = Len(errors) + 1
                  /\ SubSeq(errors', 1, Len(errors)) = errors
                  /\ cur_token' = cur_token
                  /\ peek_token' = peek_token
                  /\ lexer' = lexer
                  /\ emitted' = emitted
                  /\ Len(stack') = Len(stack) - 1
                  /\ ret' = NoneV]_vars

\* `let x 5`: expect_peek(Ident) has advanced onto x, then expect_peek(Assign) has
\* failed on 5 and left the window where it was
C10_Witness ==
    /\ status = "parsing"
    /\ Running("parse_program", "advance")
    /\ ret = NoneV
    /\ errors = <<"expected next token to be \"=\", got \"int\" instead">>
    /\ cur_token = Token("Ident", <<"x">>)
    /\ peek_token = Token("Int", <<"5">>)
    /\ Len(emitted) = 3

(***************************************************************************)
(* C11.  A text with a malformed let statement (the token after `let` is   *)
(* not an identifier, or the one after the identifier is not `=`) leaves   *)
(* at least one message in the error list, and parse_program neither       *)
(* panics nor loops forever on it.                                         *)
(***************************************************************************)
\* the text starts with a let statement whose header is malformed
StartsWithMalformedLet ==
    LET toks == source_tokens
    IN /\ toks # <<>>
       /\ toks[1].token_type = "Let"
       /\ \/ Len(toks) < 2
          \/ toks[2].token_type # "Ident"
          \/ Len(toks) < 3
          \/ toks[3].token_type # "Assign"

\* a skip loop standing on end-of-input: every further turn pulls end-of-input
\* again and leaves the parser where it is
SpinsForever ==
    /\ status = "parsing"
    /\ stack # <<>>
    /\ Top.pc = "skip"
    /\ cur_token_is("Eof")

C11_MalformedLetIsReported ==
    StartsWithMalformedLet =>
        /\ status # "panicked"
        /\ ~SpinsForever
        /\ (status = "done" => errors # <<>>)

(***************************************************************************)
(* C12.  parse_integer_literal: digits that denote a value of at most      *)
(* 2^63 - 1 give an IntegerLiteral of exactly that value and no message;   *)
(* digits that denote more give no expression and exactly one message.     *)
(***************************************************************************)
\* the number a short run of digits denotes
RECURSIVE Num(_)
Num(d) ==
    IF d = <<>> THEN 0
    ELSE 10 * Num(SubSeq(d, 1, Len(d) - 1)) + DigitValue[d[Len(d)]]

\* digits padded with zeros on the left to 27 places, as three numbers below
\* 10^9, the most significant first; longer runs of digits have no such form
Chunks(d) ==
    LET p == [i \in 1..(27 - Len(d)) |-> "0"] \o d
    IN <<Num(SubSeq(p, 1, 9)), Num(SubSeq(p, 10, 18)), Num(SubSeq(p, 19, 27))>>

\* 2^63 - 1 = 9 223372036 854775807
I64MaxChunks == <<9, 223372036, 854775807>>

\* a <= b for numbers in that form
ChunksLeq(a, b) ==
    \/ a[1] < b[1]
    \/ a[1] = b[1] /\ a[2] < b[2]
    \/ a[1] = b[1] /\ a[2] = b[2] /\ a[3] <= b[3]

\* C12: the step of parse_expression that calls parse_integer_literal
C12_IntegerLiteralConversion ==
    [][(/\ status = "parsing"
        /\ stack # <<>>
        /\ Top.fn = "parse_expression"
        /\ Top.pc = "prefix"
        /\ cur_token.token_type = "Int"
        /\ \A k \in 1..Len(cur_token.literal) : cur_token.literal[k] \in Digits
        /\ Len(cur_token.literal) <= 27)
       => LET made == stack'[Len(stack')].node
          IN /\ Len(stack') = Len(stack)
             /\ IF ChunksLeq(Chunks(cur_token.literal), I64MaxChunks)
                THEN /\ made.kind = "Integer"
                     /\ made.token = cur_token
                     /\ Chunks(made.value) = Chunks(cur_token.literal)
                     /\ Len(made.value) = 1 \/ made.value[1] # "0"
                     /\ errors' = errors
                ELSE /\ made = NoneV
                     /\ Len(errors') = Len(errors) + 1
                     /\ SubSeq(errors', 1, Len(errors)) = errors]_vars

\* 2^63, one more than fits: no statement, and the one message
C12_Witness ==
    /\ status = "done"
    /\ Str(input) = "9223372036854775808"
    /\ statements = <<>>
    /\ errors = <<"Could not parse 9223372036854775808 as integer: "
                    \o "number too large to fit in target type">>

(***************************************************************************)
(* C13.  The semicolon after an expression statement is optional: a text   *)
(* without `;`, `let` and `return` gives the same statements (hence the    *)
(* same rendering) and the same errors whether or not a `;` follows it.    *)
(***************************************************************************)
\* the second parse is through
SecondParseThrough == earlier # NoneV /\ status \in {"done", "panicked"}

C13_SemicolonIsOptional ==
    SecondParseThrough =>
        /\ status = earlier.outcome
        /\ statements = earlier.statements
        /\ program_to_string(statements) = program_to_string(earlier.statements)
        /\ errors = earlier.errors

\* `a * - a` and `a * - a;`: both give the one statement (a * (-a))
C13_Witness ==
    /\ SecondParseThrough
    /\ Str(input) = "a * - a;"
    /\ peek_token = EofToken
    /\ Len(emitted) > 5
    /\ emitted[5] = Token("Semicolon", <<";">>)
    /\ earlier.outcome = "done"
    /\ program_to_string(earlier.statements) = "(a * (-a))"
    /\ program_to_string(statements) = "(a * (-a))"

(***************************************************************************)
(* C14.  parse_expression entered on a token without a prefix rule (any    *)
(* kind but Ident, Int, `-`, `!`) gives no expression and adds nothing to  *)
(* the errors, whatever follows: prefix_parse gives none and records       *)
(* nothing, and the loop, with none for its left side, can only return     *)
(* none, after at most one advance onto an operator.                       *)
(***************************************************************************)
\* the running call is parse_expression at place pc
InParseExpression(pc) ==
    /\ status = "parsing"
    /\ stack # <<>>
    /\ Top.fn = "parse_expression"
    /\ Top.pc = pc

HasPrefixRule(t) == t \in {"Ident", "Int", "Minus", "Bang"}

C14_NoPrefixRuleNoExpression ==
    [][/\ (InParseExpression("prefix") /\ ~HasPrefixRule(cur_token.token_type))
          => /\ errors' = errors
             /\ stack' = Goto("loop", NoneV)
             /\ <<cur_token, peek_token, emitted>>' = <<cur_token, peek_token, emitted>>
       /\ (InParseExpression("loop") /\ Top.node = NoneV)
          => /\ errors' = errors
             /\ Len(emitted') <= Len(emitted) + 1
             /\ status' = "parsing"
                   => /\ stack' = SubSeq(stack, 1, Len(stack) - 1)
                      /\ ret' = NoneV]_vars

\* `( * a`: parse_expression entered on `(` has advanced onto `*` and returned
\* none to parse_expression_statement, and there are no errors
C14_Witness ==
    /\ Running("parse_expression_statement", "finish")
    /\ emitted = <<Token("LeftParen", <<"(">>), Token("Asterisk", <<"*">>),
                   Token("Ident", <<"a">>)>>
    /\ cur_token = Token("Asterisk", <<"*">>)
    /\ ret = NoneV
    /\ errors = <<>>

(***************************************************************************)
(* C15.  A prefix operator binds tighter than every infix operator.  In a  *)
(* text of operands, each with prefix operators before it, joined by infix *)
(* operators, a prefix operator applies to what follows it up to the       *)
(* operand, and the infix operators join the prefixed operands by the      *)
(* reference rule of C3.                                                   *)
(***************************************************************************)
InfixTypes ==
    {"Equal", "NotEqual", "LessThan", "GreaterThan", "Plus", "Minus", "Asterisk", "Slash"}

Unparsable == [ok |-> FALSE]

\* the prefixed operand that starts at place i: its tree, and the place after it
RECURSIVE PrefixedOperand(_, _)
PrefixedOperand(toks, i) ==
    IF i > Len(toks) THEN Unparsable
    ELSE CASE toks[i].token_type \in {"Minus", "Bang"} ->
                LET r == PrefixedOperand(toks, i + 1)
                IN IF r.ok
                   THEN [ok |-> TRUE, next |-> r.next,
                         tree |-> PrefixExpression(toks[i], toks[i].literal, r.tree)]
                   ELSE Unparsable
           [] toks[i].token_type = "Ident" ->
                [ok |-> TRUE, next |-> i + 1,
                 tree |-> IdentExpression(toks[i], toks[i].literal)]
           [] /\ toks[i].token_type = "Int"
              /\ \A k \in 1..Len(toks[i].literal) : toks[i].literal[k] \in Digits
              /\ fits_i64(toks[i].literal) ->
                [ok |-> TRUE, next |-> i + 1,
                 tree |-> IntegerLiteral(toks[i], strip_zeros(toks[i].literal))]
           [] OTHER -> Unparsable

\* the text from place i as prefixed operands and the infix operators between
\* them, in turn; Unparsable in it if the text is not of that form
RECURSIVE OperandsAndOperators(_, _)
OperandsAndOperators(toks, i) ==
    LET u == PrefixedOperand(toks, i)
    IN IF ~u.ok THEN <<Unparsable>>
       ELSE IF u.next > Len(toks) THEN <<u.tree>>
       ELSE IF toks[u.next].token_type \in InfixTypes
       THEN <<u.tree, toks[u.next]>> \o OperandsAndOperators(toks, u.next + 1)
       ELSE <<Unparsable>>

\* the reference tree over prefixed operands: the operator applied last is the
\* rightmost among those of the lowest precedence
RECURSIVE JoinOperands(_)
JoinOperands(items) ==
    IF Len(items) = 1 THEN items[1]
    ELSE LET r == RootOf(items)
         IN InfixExpression(items[r], JoinOperands(SubSeq(items, 1, r - 1)),
                            items[r].literal,
                            JoinOperands(SubSeq(items, r + 1, Len(items))))

\* whether an infix expression is the operand of some prefix expression of e
RECURSIVE InfixUnderPrefix(_)
InfixUnderPrefix(e) ==
    CASE e.kind = "Prefix" -> e.right.kind = "Infix" \/ InfixUnderPrefix(e.right)
      [] e.kind = "Infix" -> InfixUnderPrefix(e.left) \/ InfixUnderPrefix(e.right)
      [] OTHER -> FALSE

C15_PrefixBindsTighter ==
    /\ \A i \in 1..Len(statements) :
          statements[i].kind = "Expression" => ~InfixUnderPrefix(statements[i].expression)
    /\ LET toks == WithoutSemicolon(source_tokens)
           items == OperandsAndOperators(toks, 1)
       IN (/\ status = "done"
           /\ \A k \in 1..Len(items) : items[k] # Unparsable)
          => /\ Len(statements) = 1
             /\ statements[1].kind = "Expression"
             /\ statements[1].expression = JoinOperands(items)
             /\ errors = <<>>

\* `- a * a`: the product has the whole prefix expression as its left side
C15_Witness ==
    /\ status = "done"
    /\ Str(input) = "- a * a"
    /\ program_to_string(statements) = "((-a) * a)"
    /\ statements[1].expression.left.kind = "Prefix"
    /\ errors = <<>>

(***************************************************************************)
(* C16.  parse_return_statement always succeeds: a call of it gives a      *)
(* Return statement with the `return` token and the placeholder value      *)
(* `foo`, records no error, and leaves the current token on the next `;`.  *)
(* A call that has run into end-of-input, or has panicked, gives nothing.  *)
(***************************************************************************)
\* a step of a call of parse_return_statement
C16_ReturnAlwaysSucceeds ==
    [][(status = "parsing" /\ stack # <<>> /\ Top.fn = "parse_return_statement")
       => /\ status' = "parsing"
          /\ errors' = errors
          /\ IF Len(stack') < Len(stack)
             THEN /\ ret'.kind = "Return"
                  /\ ret'.token = Token("Return", <<"r", "e", "t", "u", "r", "n">>)
                  /\ ret'.value.kind = "Ident"
                  /\ Str(ret'.value.value) = "foo"
                  /\ cur_token'.token_type = "Semicolon"
             ELSE \* still in the loop: not on end-of-input, where it cannot end
                  cur_token'.token_type # "Eof"]_vars

(***************************************************************************)
(* C17.  parse_expression terminates.  A nested call of parse_expression   *)
(* is made only after the window has advanced past a token of the text;    *)
(* for an infix operator it passes a precedence strictly above its         *)
(* caller's, for a prefix operator it passes Prefix, not below its         *)
(* caller's; so the precedences of the nested calls never decrease.  Every *)
(* step of the expression parser consumes a token or moves on in the code, *)
(* and no more tokens are consumed than the text has.                      *)
(***************************************************************************)
ExpressionFunctions ==
    {"parse_expression", "parse_prefix_expression", "parse_infix_expression"}

\* the precedences of the calls of parse_expression on the stack, outermost first
RECURSIVE NestedPrecedences(_)
NestedPrecedences(frames) ==
    IF frames = <<>> THEN <<>>
    ELSE (IF Head(frames).fn = "parse_expression"
          THEN <<Head(frames).precedence>> ELSE <<>>)
            \o NestedPrecedences(Tail(frames))

C17_ExpressionParsingTerminates ==
    [][(/\ status = "parsing"
        /\ stack # <<>>
        /\ Top.fn \in ExpressionFunctions
        /\ status' = "parsing")
       => /\ TokensConsumed' > TokensConsumed \/ stack' # stack
          /\ TokensConsumed' <= CountTokens(source_tokens)
          /\ LET ps == NestedPrecedences(stack)
             IN \A i \in 1..Len(ps) : \A j \in i..Len(ps) : ps[i] <= ps[j]
          /\ (Len(stack') = Len(stack) + 1
                 /\ stack'[Len(stack')].fn = "parse_expression")
             => LET passed == stack'[Len(stack')].precedence
                    caller == stack[Len(stack) - 1]
                IN /\ Top.fn \in {"parse_prefix_expression", "parse_infix_expression"}
                   /\ caller.fn = "parse_expression"
                   /\ TokensConsumed' = TokensConsumed + 1
                   /\ IF Top.fn = "parse_infix_expression"
                      THEN passed > caller.precedence
                      ELSE passed = Prefix /\ passed >= caller.precedence]_vars

\* `a * - a`: parse_expression(Lowest) has called, for `*`, parse_expression
\* (Product), and that one, for `-`, parse_expression(Prefix), now on the last `a`
C17_Witness ==
    /\ status = "parsing"
    /\ NestedPrecedences(stack) = <<Lowest, Product, Prefix>>
    /\ Top.fn = "parse_expression"
    /\ Top.pc = "loop"
    /\ Top.node = IdentExpression(Token("Ident", <<"a">>), <<"a">>)
    /\ TokensConsumed = 3

(***************************************************************************)
(* C18.  The two-token window.  Parser::new pulls exactly two tokens;      *)
(* every advance pulls exactly one; with t1..tn the tokens pulled so far,  *)
(* the peek token is tn and the current token t(n-1); the tokens pulled    *)
(* stay as they are, and the window moves only by taking the peek token as *)
(* the current one and the token just pulled as the peek token: no token   *)
(* is skipped, none is seen twice, none out of order.                      *)
(***************************************************************************)
\* the window holds the last two of the tokens pulled
WindowIsLastTwo(toks, cur, peek) ==
    /\ Len(toks) >= 2
    /\ peek = toks[Len(toks)]
    /\ cur = toks[Len(toks) - 1]

\* a step keeps the window on the last two tokens pulled, and pulls one at most
WindowStep ==
    /\ status' \in {"parsing", "done"}
          => WindowIsLastTwo(emitted', cur_token', peek_token')
    /\ (status = "constructing" /\ status' = "parsing") => Len(emitted') = 2
    /\ (status = "parsing" /\ status' \in {"parsing", "done"})
          => /\ Len(emitted') \in {Len(emitted), Len(emitted) + 1}
             /\ SubSeq(emitted', 1, Len(emitted)) = emitted
             /\ <<cur_token', peek_token'>> # <<cur_token, peek_token>>
                   => /\ Len(emitted') = Len(emitted) + 1
                      /\ cur_token' = peek_token

C18_TwoTokenWindow == [][WindowStep]_vars

\* `let x = 5;` after two advances: four tokens pulled, the window on `=` and `5`
C18_Witness ==
    /\ status = "parsing"
    /\ Str(input) = "let x = 5;"
    /\ Len(emitted) = 4
    /\ cur_token = Token("Assign", <<"=">>)
    /\ peek_token = Token("Int", <<"5">>)
    /\ emitted[3] = cur_token
    /\ emitted[4] = peek_token

(***************************************************************************)
(* C19.  The cursor of the tokenizer: after Lexer::new and after every     *)
(* read_char and next_token, read_position = position + 1 and ch is the    *)
(* character at index position, none at and past the end of the text;      *)
(* peek_char is the character at read_position, and moves nothing.         *)
(***************************************************************************)
CursorInvariant(l) ==
    /\ l.read_position = l.position + 1
    /\ l.ch = chars_nth(input, l.position)
    /\ l.position >= Len(input) => l.ch = None

\* in every state: the tokenizer as it stands, after one more read_char, after
\* the whitespace is skipped, and after the next call of next_token
C19_CursorInvariant ==
    /\ CursorInvariant(new_lexer)
    /\ CursorInvariant(lexer)
    /\ CursorInvariant(read_char(lexer))
    /\ CursorInvariant(skip_whitespace(lexer))
    /\ LET r == lexer_next_token(lexer)
       IN ~r.panicked => CursorInvariant(r.lexer) /\ r.lexer.position >= lexer.position
    /\ peek_char(lexer) = chars_nth(input, lexer.position + 1)

\* `a;` after one token: the cursor is on the `;`, at index 1
C19_Witness ==
    /\ status = "lexing"
    /\ Str(input) = "a;"
    /\ emitted = <<Token("Ident", <<"a">>)>>
    /\ lexer = [ch |-> ";", position |-> 1, read_position |-> 2]
    /\ peek_char(lexer) = None

(***************************************************************************)
(* C20.  Tokenization loses nothing but whitespace: on an ASCII text, the  *)
(* literals of the tokens up to the first end-of-input token, one after    *)
(* the other, are the text without its spaces, tabs, newlines and carriage *)
(* returns.                                                                *)
(***************************************************************************)
IsAscii(text) == \A i \in 1..Len(text) : utf8_len(text[i]) = 1

RECURSIVE WithoutWhitespace(_)
WithoutWhitespace(text) ==
    IF text = <<>> THEN <<>>
    ELSE (IF Head(text) \in {" ", "\t", "\n", "\r"} THEN <<>> ELSE <<Head(text)>>)
            \o WithoutWhitespace(Tail(text))

\* the literals of the tokens before the first end-of-input token, concatenated
RECURSIVE LiteralsUpToEof(_)
LiteralsUpToEof(toks) ==
    IF toks = <<>> \/ Head(toks).token_type = "Eof" THEN <<>>
    ELSE Head(toks).literal \o LiteralsUpToEof(Tail(toks))

EofReturned == \E i \in 1..Len(emitted) : emitted[i].token_type = "Eof"

C20_LosslessUpToWhitespace ==
    IsAscii(input) =>
        /\ status # "panicked"
        /\ EofReturned => LiteralsUpToEof(emitted) = WithoutWhitespace(input)

\* a tab and `let`: the one token `let`, then end-of-input
C20_Witness ==
    /\ status = "lexing"
    /\ input = <<"\t", "l", "e", "t">>
    /\ emitted = <<Token("Let", <<"l", "e", "t">>), EofToken>>

(***************************************************************************)
(* C21.  A token kind has a precedence above Lowest exactly when it is an  *)
(* infix operator, and parse_expression is only called with a precedence   *)
(* of Lowest at least.  So whenever the condition of the loop of           *)
(* parse_expression holds, the peek token is an infix operator: the early  *)
(* return for a peek token that is none is never taken, and at a token     *)
(* that is no operator it is the comparison of precedences that fails.     *)
(***************************************************************************)
\* the loop of parse_expression is about to test its condition
AtLoopTest == status = "parsing" /\ stack # <<>> /\ Top.fn = "parse_expression"
                 /\ Top.pc = "loop"

\* the condition holds and the peek token is no infix operator: the loop body
\* would take its early return
EarlyReturnTaken ==
    AtLoopTest /\ climbs(Top.precedence) /\ ~is_infix(peek_token.token_type)

C21_EarlyReturnUnreachable ==
    /\ \A t \in TokenType : precedence(t) > Lowest <=> is_infix(t)
    /\ \A i \in 1..Len(stack) :
          stack[i].fn = "parse_expression" => stack[i].precedence >= Lowest
    /\ ~EarlyReturnTaken
    /\ (AtLoopTest /\ ~is_infix(peek_token.token_type))
          => ~(Top.precedence < peek_precedence)

\* `a (`: the loop of parse_expression(Lowest) has stopped at `(`, which has the
\* precedence Lowest, and the identifier has been returned
C21_Witness ==
    /\ Running("parse_expression_statement", "finish")
    /\ Str(input) = "a ("
    /\ ret = IdentExpression(Token("Ident", <<"a">>), <<"a">>)
    /\ cur_token = Token("Ident", <<"a">>)
    /\ peek_token = Token("LeftParen", <<"(">>)
    /\ ~is_infix(peek_token.token_type)
    /\ peek_precedence = Lowest

====
